---- MODULE Spec2Model ----
(***************************************************************************)
(* The readiness-gated deployment-and-bridge sequence of src/src/server.ts *)
(* as a state machine: the module-level listener on port 3001, the         *)
(* readiness prober (ensurePXEReady), the deployer (deployContract), the   *)
(* retry wrapper (deployContractWithRetry), the orchestrator's .then       *)
(* continuation and the bridge server (startWebSocketServer) with its      *)
(* per-connection handlers; and the storage of the Main contract           *)
(* (src/contract/src/main.nr) as the deploying scripts and tests use it.   *)
(*                                                                         *)
(* One action is one run-to-completion step of the JavaScript event loop:  *)
(* everything the code does between two suspension points (await, timer,   *)
(* socket event).  The environment (status endpoint, sandbox node, ports,  *)
(* bridge clients) supplies the outcome of each suspension.                *)
(***************************************************************************)
EXTENDS Integers, Sequences, FiniteSets, TLC

\* ------------------------------------------------------------------ bounds
MaxProbeFails == 2      \* failing probes per ensurePXEReady call
MaxDeployFails == 2     \* failing deployContract attempts per run
MaxBusyPorts == 2       \* ports from 3002 upwards whose bind may fail
MaxConns == 2           \* bridge connections accepted per run
MaxMsgs == 2            \* messages received by the bridge per run
MaxKey == 2             \* keys 0 .. MaxKey of field_in_map are written and read

\* ------------------------------------------------------- program constants
StrayPort == 3001               \* server.ts:8
DefaultPort == 3002             \* server.ts:34
ProbePauseMs == 5000            \* server.ts:79
RetryPauseMs == 10000           \* server.ts:92
DefaultPxeUrl == "http://localhost:8080"            \* server.ts:11
StatusUrl == "http://localhost:8080/status"         \* server.ts:70
ReadyText == "OK"                                   \* server.ts:72
MapSlotNo == 1                  \* main.nr:11, first storage slot
JustFieldSlotNo == 2            \* main.nr:12, second storage slot
InitMapKey == 1                 \* main.nr:18
InitMapValue == 1               \* main.nr:18
InitJustField == 700            \* main.nr:19
ScriptValue == 214              \* unnamed/part_000:46

\* ------------------------------------------------------------- environment
Undefined == "<undefined>"      \* an environment variable that is not set
OtherPxeUrl == "http://pxe.example:9090"
PxeUrlValues == {Undefined, DefaultPxeUrl, OtherPxeUrl}
StatusTexts == {"OK", "ok", "Service Unavailable", ""}
\* what one fetch of the status endpoint produces: a thrown transport error
\* or a response carrying a statusText
ProbeOutcomes ==
    {[threw |-> TRUE, statusText |-> ""]}
        \cup {[threw |-> FALSE, statusText |-> t] : t \in StatusTexts}
NoProbe == [threw |-> FALSE, statusText |-> "<none>"]
PortStatuses == {"free", "EADDRINUSE", "EACCES"}
BridgePorts == DefaultPort .. (DefaultPort + MaxBusyPorts)
Conns == 1 .. MaxConns
\* inbound bridge messages: binary flag and the text message.toString() gives
Messages ==
    { [binary |-> FALSE, text |-> ""],
      [binary |-> FALSE, text |-> "hello"],
      [binary |-> FALSE, text |-> "{\"a\":"],
      [binary |-> TRUE,  text |-> "\\x00\\xff"] }

\* the Field arguments the callers pass
Keys == 0 .. MaxKey
FieldValues == {0, InitMapValue, ScriptValue, InitJustField}

NoHandle == [kind |-> "undefined", id |-> 0]
Handle(k, n) == [kind |-> k, id |-> n]
NoResult == [contract |-> NoHandle, wallet |-> NoHandle]

VARIABLES
    pxeUrlEnv,      \* process.env.PXE_URL
    portStatus,     \* what binding each port yields (other listeners)
    bindThrows,     \* the runtime reports a failed bind by a synchronous throw
    pc,             \* suspension point of the orchestration's async flow
    crashed,        \* the process died of an unhandled 'error' event
    probes,         \* fetches issued by the current ensurePXEReady call
    probeFails,     \* of which failed (threw or statusText other than OK)
    pauses,         \* 5 s timers started by the current ensurePXEReady call
    pausedMs,       \* their durations, summed
    lastProbe,      \* outcome of the latest settled fetch
    probeUrl,       \* URL of the latest fetch
    proberRuns,     \* ensurePXEReady calls that have returned
    attempts,       \* deployContract calls started
    inFlight,       \* deployContract calls started and not yet settled
    deployFails,    \* deployContract calls that threw
    errLogs,        \* console.error lines of the retry wrapper
    retryPausedMs,  \* durations of the wrapper's retry timers, summed
    rpcUrl,         \* URL given to createPXEClient by the latest attempt
    accounts,       \* accounts deployed on the sandbox chain by this process
    contracts,      \* Main contracts deployed on the chain by this process
    dcResult,       \* value the latest deployContract call returned
    retVal,         \* value deployContractWithRetry's promise resolved with
    contractInstance, walletInstance,   \* the module-level slot
    slotWrites,     \* executions of the .then continuation's assignments
    stray,          \* the module-level server of line 8: none, binding, listening
    listening,      \* ports this process is bound to and listening on
    bridge,         \* startWebSocketServer's effects (see NoBridge)
    readyState,     \* per bridge connection: NONE, OPEN, CLOSING, CLOSED
    connEvents,     \* per bridge connection: its log lines and sent frames
    stdout,         \* console lines written by the latest step
    storage,        \* public storage of one Main instance: slot -> Field
    initialized,    \* that instance's initializer has run
    call,           \* the latest call to the instance and what it returned
    lastJust,       \* argument of the latest set_just_field call, if any
    lastMap         \* per key: argument of the latest set_field_in_map call

envVars == <<pxeUrlEnv, portStatus, bindThrows>>
proberVars == <<probes, probeFails, pauses, pausedMs, lastProbe, probeUrl, proberRuns>>
deployVars == <<attempts, inFlight, deployFails, errLogs, retryPausedMs, rpcUrl,
                accounts, contracts, dcResult>>
slotVars == <<retVal, contractInstance, walletInstance, slotWrites>>
bridgeVars == <<stray, listening, bridge>>
connVars == <<readyState, connEvents>>
mainVars == <<storage, initialized, call, lastJust, lastMap>>
vars == <<envVars, pc, crashed, proberVars, deployVars, slotVars, bridgeVars,
          connVars, stdout, mainVars>>

NoBridge ==
    [ tried |-> <<>>,       \* ports given to new WebSocketServer, in order
      running |-> <<>>,     \* ports named by the "running on" log, in order
      errors |-> <<>>,      \* console.error lines of the catch block
      server |-> 0,         \* port of the server object that was constructed
      state |-> "none" ]    \* none, binding, listening, failed

\* ------------------------------------------------- Main contract storage
\* storage slots: just_field lives in its own slot, field_in_map.at(key) in
\* the slot derived from the map's slot and the key
JustFieldSlot == <<JustFieldSlotNo>>
DerivedSlot(key) == <<MapSlotNo, key>>
Slots == {JustFieldSlot} \cup {DerivedSlot(k) : k \in Keys}
\* a slot never written reads as 0
ZeroStorage == [sl \in Slots |-> 0]
NoCall == [fn |-> "none", key |-> 0, value |-> 0, ret |-> 0]
Never == [set |-> FALSE, value |-> 0]
Latest(v) == [set |-> TRUE, value |-> v]

\* the Main instance before its deployment
MainUndeployed ==
    /\ storage = ZeroStorage
    /\ initialized = FALSE
    /\ call = NoCall
    /\ lastJust = Never
    /\ lastMap = [k \in Keys |-> Never]

Init ==
    /\ MainUndeployed
    /\ pxeUrlEnv \in PxeUrlValues
    /\ portStatus \in [{StrayPort} \cup BridgePorts -> PortStatuses]
    /\ portStatus[DefaultPort + MaxBusyPorts] = "free"
    /\ bindThrows \in BOOLEAN
    /\ pc = "load"
    /\ crashed = FALSE
    /\ probes = 0 /\ probeFails = 0 /\ pauses = 0 /\ pausedMs = 0
    /\ lastProbe = NoProbe /\ probeUrl = Undefined /\ proberRuns = 0
    /\ attempts = 0 /\ inFlight = 0 /\ deployFails = 0 /\ errLogs = 0
    /\ retryPausedMs = 0 /\ rpcUrl = Undefined
    /\ accounts = {} /\ contracts = {}
    /\ dcResult = NoResult /\ retVal = NoResult
    /\ contractInstance = NoHandle /\ walletInstance = NoHandle
    /\ slotWrites = 0
    /\ stray = "none"
    /\ listening = {}
    /\ bridge = NoBridge
    /\ readyState = [c \in Conns |-> "NONE"]
    /\ connEvents = [c \in Conns |-> <<>>]
    /\ stdout = <<>>

\* ------------------------------------------------------------ conversions
\* JSON.stringify of a flat object given as a sequence of <<key, value>>
\* pairs; a value is JsBool(b) or JsString(s)
JsBool(b) == [type |-> "boolean", bool |-> b, str |-> ""]
JsString(s) == [type |-> "string", bool |-> FALSE, str |-> s]
JsonValue(v) ==
    IF v.type = "boolean" THEN (IF v.bool THEN "true" ELSE "false")
    ELSE "\"" \o v.str \o "\""
RECURSIVE JsonMembers(_)
JsonMembers(kvs) ==
    IF kvs = <<>> THEN ""
    ELSE "\"" \o Head(kvs)[1] \o "\":" \o JsonValue(Head(kvs)[2])
         \o (IF Len(kvs) > 1 THEN "," ELSE "") \o JsonMembers(Tail(kvs))
JsonStringify(kvs) == "{" \o JsonMembers(kvs) \o "}"

\* the PXE_URL destructuring default of setupSandbox
PxeUrl == IF pxeUrlEnv = Undefined THEN DefaultPxeUrl ELSE pxeUrlEnv

\* ---------------------------------------------------------- module load
\* Evaluation of the module: line 8 constructs the port-3001 server, line 97
\* calls deployContractWithRetry, which runs synchronously up to the first
\* fetch of ensurePXEReady.  A constructor that throws aborts the module.
EnterProber ==
    /\ probes' = 1 /\ probeFails' = 0 /\ pauses' = 0 /\ pausedMs' = 0
    /\ probeUrl' = StatusUrl
    /\ pc' = "fetch"
    /\ UNCHANGED <<lastProbe, proberRuns>>

Load ==
    /\ pc = "load" /\ ~crashed
    /\ IF bindThrows /\ portStatus[StrayPort] # "free"
       THEN /\ crashed' = TRUE
            /\ stdout' = <<>>
            /\ UNCHANGED <<pc, proberVars, stray>>
       ELSE /\ stray' = "binding"
            /\ EnterProber
            /\ stdout' = <<"Waiting for PXE to be ready...">>
            /\ UNCHANGED crashed
    /\ UNCHANGED <<mainVars, envVars, deployVars, slotVars, listening, bridge, connVars>>

\* The bind of the port-3001 server settles on the tick after module load:
\* 'listening', or an 'error' event that has no listener and kills the process.
StraySettles ==
    /\ stray = "binding" /\ ~crashed
    /\ IF portStatus[StrayPort] = "free"
       THEN /\ stray' = "listening"
            /\ listening' = listening \cup {StrayPort}
            /\ UNCHANGED crashed
       ELSE /\ crashed' = TRUE
            /\ UNCHANGED <<stray, listening>>
    /\ stdout' = <<>>
    /\ UNCHANGED <<mainVars, envVars, pc, proberVars, deployVars, slotVars, bridge, connVars>>

\* ------------------------------------------------------- ensurePXEReady
\* mutant: any response counts as ready, whatever its statusText
IsReadyAnyResponse(o) == ~o.threw

\* statusText === "OK"
IsReady(o) == ~o.threw /\ o.statusText = ReadyText

\* mutant: a response with another statusText is retried without the pause
FetchSettlesRetriesAtOnce(o) ==
    /\ pc = "fetch" /\ ~crashed /\ stray # "binding"
    /\ IsReady(o) \/ probeFails < MaxProbeFails
    /\ lastProbe' = o
    /\ IF IsReady(o)
       THEN /\ stdout' = <<"response.statusText " \o o.statusText, "PXE is ready!">>
            /\ proberRuns' = proberRuns + 1
            /\ pc' = "ready"
            /\ UNCHANGED <<probes, probeFails, pauses, pausedMs>>
       ELSE IF o.threw
       THEN /\ stdout' = <<"PXE not ready yet, retrying...">>
            /\ probeFails' = probeFails + 1
            /\ pauses' = pauses + 1
            /\ pausedMs' = pausedMs + ProbePauseMs
            /\ pc' = "sleep5"
            /\ UNCHANGED <<probes, proberRuns>>
       ELSE /\ stdout' = <<"response.statusText " \o o.statusText>>
            /\ probeFails' = probeFails + 1
            /\ probes' = probes + 1
            /\ pc' = "fetch"
            /\ UNCHANGED <<pauses, pausedMs, proberRuns>>
    /\ UNCHANGED <<mainVars, envVars, crashed, probeUrl, deployVars, slotVars,
                   bridgeVars, connVars>>

\* mutant: the fetch is not inside the try block, so a transport error
\* rejects ensurePXEReady and, with it, deployContractWithRetry
FetchSettlesUncaught(o) ==
    /\ pc = "fetch" /\ ~crashed /\ stray # "binding"
    /\ IsReady(o) \/ probeFails < MaxProbeFails
    /\ lastProbe' = o
    /\ IF IsReady(o)
       THEN /\ stdout' = <<"response.statusText " \o o.statusText, "PXE is ready!">>
            /\ proberRuns' = proberRuns + 1
            /\ pc' = "ready"
            /\ UNCHANGED <<probeFails, pauses, pausedMs>>
       ELSE IF o.threw
       THEN /\ stdout' = <<>>
            /\ probeFails' = probeFails + 1
            /\ pc' = "rejected"
            /\ UNCHANGED <<pauses, pausedMs, proberRuns>>
       ELSE /\ stdout' = <<"response.statusText " \o o.statusText>>
            /\ probeFails' = probeFails + 1
            /\ pauses' = pauses + 1
            /\ pausedMs' = pausedMs + ProbePauseMs
            /\ pc' = "sleep5"
            /\ UNCHANGED proberRuns
    /\ UNCHANGED <<mainVars, envVars, crashed, probes, probeUrl, deployVars, slotVars,
                   bridgeVars, connVars>>

\* The fetch of line 70 settles with outcome o; lines 71-79 run.
FetchSettles(o) ==
    /\ pc = "fetch" /\ ~crashed /\ stray # "binding"
    /\ IsReady(o) \/ probeFails < MaxProbeFails
    /\ lastProbe' = o
    /\ IF IsReady(o)
       THEN /\ stdout' = <<"response.statusText " \o o.statusText, "PXE is ready!">>
            /\ proberRuns' = proberRuns + 1
            /\ pc' = "ready"
            /\ UNCHANGED <<probeFails, pauses, pausedMs>>
       ELSE /\ stdout' = IF o.threw
                         THEN <<"PXE not ready yet, retrying...">>
                         ELSE <<"response.statusText " \o o.statusText>>
            /\ probeFails' = probeFails + 1
            /\ pauses' = pauses + 1
            /\ pausedMs' = pausedMs + ProbePauseMs
            /\ pc' = "sleep5"
            /\ UNCHANGED proberRuns
    /\ UNCHANGED <<mainVars, envVars, crashed, probes, probeUrl, deployVars, slotVars,
                   bridgeVars, connVars>>

\* The timer of line 79 fires; the loop issues the next fetch.
ProbeTimer ==
    /\ pc = "sleep5" /\ ~crashed
    /\ probes' = probes + 1
    /\ probeUrl' = StatusUrl
    /\ pc' = "fetch"
    /\ stdout' = <<>>
    /\ UNCHANGED <<mainVars, envVars, crashed, probeFails, pauses, pausedMs, lastProbe,
                   proberRuns, deployVars, slotVars, bridgeVars, connVars>>

\* ------------------------------------- deployContract and its retry wrapper
\* ensurePXEReady has returned; the wrapper continues at line 86 and calls
\* deployContract, which runs up to its first suspension (lines 18-19, 11-13).
DeployStart ==
    /\ pc = "ready" /\ ~crashed
    /\ attempts' = attempts + 1
    /\ inFlight' = inFlight + 1
    /\ rpcUrl' = PxeUrl
    /\ pc' = "dc_setup"
    /\ stdout' = <<"Deploying contract...", "goes into deployContract">>
    /\ UNCHANGED <<mainVars, envVars, crashed, proberVars, deployFails, errLogs, retryPausedMs,
                   accounts, contracts, dcResult, slotVars, bridgeVars, connVars>>

\* Lines 19-23 succeed; line 24 submits the account's deployment.
DcSetupOk ==
    /\ pc = "dc_setup" /\ ~crashed
    /\ pc' = "dc_account"
    /\ stdout' = <<>>
    /\ UNCHANGED <<mainVars, envVars, crashed, proberVars, deployVars, slotVars, bridgeVars,
                   connVars>>

\* mutant: the secret key and the salt are fixed, so every attempt deploys
\* the account of the first one
DcAccountOkReusesAccount ==
    /\ pc = "dc_account" /\ ~crashed
    /\ accounts' = accounts \cup {Handle("wallet", 1)}
    /\ pc' = "dc_contract"
    /\ stdout' = <<>>
    /\ UNCHANGED <<mainVars, envVars, crashed, proberVars, attempts, inFlight, deployFails,
                   errLogs, retryPausedMs, rpcUrl, contracts, dcResult, slotVars,
                   bridgeVars, connVars>>

\* Line 24 is confirmed: the account exists on chain; lines 25-26 submit the
\* contract's deployment with the account's wallet.
DcAccountOk ==
    /\ pc = "dc_account" /\ ~crashed
    /\ accounts' = accounts \cup {Handle("wallet", attempts)}
    /\ pc' = "dc_contract"
    /\ stdout' = <<>>
    /\ UNCHANGED <<mainVars, envVars, crashed, proberVars, attempts, inFlight, deployFails,
                   errLogs, retryPausedMs, rpcUrl, contracts, dcResult, slotVars,
                   bridgeVars, connVars>>

\* mutant: the pair returned holds the wallet of the first attempt
DcContractOkStaleWallet ==
    /\ pc = "dc_contract" /\ ~crashed
    /\ contracts' = contracts \cup {Handle("contract", attempts)}
    /\ dcResult' = [contract |-> Handle("contract", attempts),
                    wallet |-> Handle("wallet", 1)]
    /\ inFlight' = inFlight - 1
    /\ pc' = "dc_returned"
    /\ stdout' = <<"Main Contract deployed at: " \o ToString(attempts)>>
    /\ UNCHANGED <<mainVars, envVars, crashed, proberVars, attempts, deployFails, errLogs,
                   retryPausedMs, rpcUrl, accounts, slotVars, bridgeVars, connVars>>

\* Line 26 is confirmed: the contract exists on chain; lines 27-28 return
\* the pair.
DcContractOk ==
    /\ pc = "dc_contract" /\ ~crashed
    /\ contracts' = contracts \cup {Handle("contract", attempts)}
    /\ dcResult' = [contract |-> Handle("contract", attempts),
                    wallet |-> Handle("wallet", attempts)]
    /\ inFlight' = inFlight - 1
    /\ pc' = "dc_returned"
    /\ stdout' = <<"Main Contract deployed at: " \o ToString(attempts)>>
    /\ UNCHANGED <<mainVars, envVars, crashed, proberVars, attempts, deployFails, errLogs,
                   retryPausedMs, rpcUrl, accounts, slotVars, bridgeVars, connVars>>

\* mutant: the catch block logs and calls deployContract again at once,
\* without the timer and without ensurePXEReady
DcThrowsRetriesAtOnce ==
    /\ pc \in {"dc_setup", "dc_account", "dc_contract"} /\ ~crashed
    /\ deployFails < MaxDeployFails
    /\ deployFails' = deployFails + 1
    /\ attempts' = attempts + 1
    /\ errLogs' = errLogs + 1
    /\ rpcUrl' = PxeUrl
    /\ pc' = "dc_setup"
    /\ stdout' = <<"Contract deployment failed, retrying in 10 seconds...">>
    /\ UNCHANGED <<mainVars, envVars, crashed, proberVars, inFlight, retryPausedMs, accounts,
                   contracts, dcResult, slotVars, bridgeVars, connVars>>

\* Any awaited step of deployContract throws; the wrapper's catch block
\* (lines 90-92) logs the error and starts the 10 s timer.
DcThrows ==
    /\ pc \in {"dc_setup", "dc_account", "dc_contract"} /\ ~crashed
    /\ deployFails < MaxDeployFails
    /\ deployFails' = deployFails + 1
    /\ inFlight' = inFlight - 1
    /\ errLogs' = errLogs + 1
    /\ retryPausedMs' = retryPausedMs + RetryPauseMs
    /\ pc' = "sleep10"
    /\ stdout' = <<"Contract deployment failed, retrying in 10 seconds...">>
    /\ UNCHANGED <<mainVars, envVars, crashed, proberVars, attempts, rpcUrl, accounts,
                   contracts, dcResult, slotVars, bridgeVars, connVars>>

\* The timer of line 92 fires; line 93 calls deployContractWithRetry again,
\* which runs up to the first fetch of a new ensurePXEReady call.
RetryTimer ==
    /\ pc = "sleep10" /\ ~crashed
    /\ EnterProber
    /\ stdout' = <<"Waiting for PXE to be ready...">>
    /\ UNCHANGED <<mainVars, envVars, crashed, deployVars, slotVars, bridgeVars, connVars>>

\* mutant: line 93 calls deployContractWithRetry without returning its
\* promise, so after a retry the outer promise resolves with undefined
WrapperReturnDropsRetryResult ==
    /\ pc = "dc_returned" /\ ~crashed
    /\ retVal' = IF deployFails > 0 THEN NoResult ELSE dcResult
    /\ pc' = "resolved"
    /\ stdout' = <<"Contract deployed at: " \o ToString(dcResult.contract.id)>>
    /\ UNCHANGED <<mainVars, envVars, crashed, proberVars, deployVars, contractInstance,
                   walletInstance, slotWrites, bridgeVars, connVars>>

\* mutant: the wrapper stores the pair in the module-level slot as well
WrapperReturnWritesSlot ==
    /\ pc = "dc_returned" /\ ~crashed
    /\ retVal' = dcResult
    /\ contractInstance' = dcResult.contract
    /\ walletInstance' = dcResult.wallet
    /\ slotWrites' = slotWrites + 1
    /\ pc' = "resolved"
    /\ stdout' = <<"Contract deployed at: " \o ToString(dcResult.contract.id)>>
    /\ UNCHANGED <<mainVars, envVars, crashed, proberVars, deployVars, bridgeVars, connVars>>

\* deployContract's promise has resolved; lines 88-89 return the pair, which
\* resolves every enclosing deployContractWithRetry promise (line 93).
WrapperReturn ==
    /\ pc = "dc_returned" /\ ~crashed
    /\ retVal' = dcResult
    /\ pc' = "resolved"
    /\ stdout' = <<"Contract deployed at: " \o ToString(dcResult.contract.id)>>
    /\ UNCHANGED <<mainVars, envVars, crashed, proberVars, deployVars, contractInstance,
                   walletInstance, slotWrites, bridgeVars, connVars>>

\* ------------------------------------------------- startWebSocketServer
\* new WebSocketServer({ port }) inside the try block.  The constructor starts
\* the bind; it throws only when the runtime reports the failure at once
\* (bindThrows).  Otherwise it returns a server object whose bind settles
\* later, and line 52 logs the port as running.
RECURSIVE startWebSocketServer(_, _)
startWebSocketServer(port, b) ==
    LET t == [b EXCEPT !.tried = Append(@, port)] IN
    IF bindThrows /\ portStatus[port] # "free"
    THEN IF portStatus[port] = "EADDRINUSE"
         THEN startWebSocketServer(port + 1,
                  [t EXCEPT !.errors = Append(@,
                      "Port " \o ToString(port) \o " already in use, retrying with port "
                          \o ToString(port + 1) \o "...")])
         ELSE [t EXCEPT !.errors = Append(@,
                   "Unexpected error in WebSocket server: " \o portStatus[port]),
                        !.state = "failed"]
    ELSE [t EXCEPT !.running = Append(@, port), !.server = port, !.state = "binding"]

\* The orchestrator's continuation (lines 97-101) with the resolved pair.
ThenCallback ==
    /\ pc = "resolved" /\ ~crashed
    /\ contractInstance' = retVal.contract
    /\ walletInstance' = retVal.wallet
    /\ slotWrites' = slotWrites + 1
    /\ bridge' = startWebSocketServer(DefaultPort, bridge)
    /\ stdout' = bridge'.errors
                   \o [i \in 1 .. Len(bridge'.running) |->
                         "WebSocket server running on ws://localhost:"
                             \o ToString(bridge'.running[i])]
    /\ pc' = "done"
    /\ UNCHANGED <<mainVars, envVars, crashed, proberVars, deployVars, retVal, stray,
                   listening, connVars>>

\* The bind of the bridge server settles: 'listening', or an 'error' event
\* that has no listener and kills the process.
BridgeSettles ==
    /\ bridge.state = "binding" /\ ~crashed
    /\ IF portStatus[bridge.server] = "free"
       THEN /\ bridge' = [bridge EXCEPT !.state = "listening"]
            /\ listening' = listening \cup {bridge.server}
            /\ UNCHANGED crashed
       ELSE /\ crashed' = TRUE
            /\ UNCHANGED <<bridge, listening>>
    /\ stdout' = <<>>
    /\ UNCHANGED <<mainVars, envVars, pc, proberVars, deployVars, slotVars, stray, connVars>>

\* ------------------------------------------------- bridge connections
Ack ==
    JsonStringify(<< <<"success", JsBool(TRUE)>>,
                     <<"message", JsString("Test response from WebSocket server")>> >>)

\* a console line of a connection's handlers; kind names the handler
LogEvent(kind, text) ==
    [type |-> "log", kind |-> kind, text |-> text, wire |-> FALSE, threw |-> FALSE]
\* ws.send(data) on a connection in state rs: throws when CONNECTING, is
\* written to the socket when OPEN, is dropped without an error when CLOSING
\* or CLOSED.
SendEvent(rs, data) ==
    [type |-> "send", kind |-> "send", text |-> data, wire |-> rs = "OPEN",
     threw |-> rs = "CONNECTING"]

MsgsReceived(ev) ==
    Len(SelectSeq(ev, LAMBDA e : e.kind = "message"))
RECURSIVE TotalMsgs(_)
TotalMsgs(cs) ==
    IF cs = {} THEN 0
    ELSE LET c == CHOOSE x \in cs : TRUE
         IN MsgsReceived(connEvents[c]) + TotalMsgs(cs \ {c})

\* 'connection' handler, lines 38-50.
Connect(c) ==
    /\ bridge.state = "listening" /\ ~crashed
    /\ readyState[c] = "NONE"
    /\ readyState' = [readyState EXCEPT ![c] = "OPEN"]
    /\ connEvents' = [connEvents EXCEPT ![c] = Append(@,
           LogEvent("connection", "Rust sequencer connected to WebSocket on port "
                        \o ToString(bridge.server)))]
    /\ stdout' = <<connEvents'[c][Len(connEvents'[c])].text>>
    /\ UNCHANGED <<mainVars, envVars, pc, crashed, proberVars, deployVars, slotVars, bridgeVars>>

\* mutant: the handlers share one ws variable, that of the first connection
ReplyConnShared(c) == 1

\* the connection a handler registered on connection c replies on
ReplyConn(c) == c

\* mutant: the handler replies only to a message that has content
OnMessageSkipsEmpty(c, m) ==
    /\ ~crashed
    /\ readyState[c] \in {"OPEN", "CLOSING"}
    /\ TotalMsgs(Conns) < MaxMsgs
    /\ LET logged == [connEvents EXCEPT ![c] = Append(@,
                         LogEvent("message", "Received WebSocket message: " \o m.text))]
           r == ReplyConn(c)
       IN connEvents' = IF m.text = "" THEN logged
                        ELSE [logged EXCEPT ![r] = Append(@, SendEvent(readyState[r], Ack))]
    /\ stdout' = <<"Received WebSocket message: " \o m.text>>
    /\ UNCHANGED <<mainVars, envVars, pc, crashed, proberVars, deployVars, slotVars, bridgeVars,
                   readyState>>

\* mutant: the handler sends the acknowledgement before it logs the message
OnMessageSendsFirst(c, m) ==
    /\ ~crashed
    /\ readyState[c] \in {"OPEN", "CLOSING"}
    /\ TotalMsgs(Conns) < MaxMsgs
    /\ LET r == ReplyConn(c)
           sent == [connEvents EXCEPT ![r] = Append(@, SendEvent(readyState[r], Ack))]
       IN connEvents' = [sent EXCEPT ![c] = Append(@,
                         LogEvent("message", "Received WebSocket message: " \o m.text))]
    /\ stdout' = <<"Received WebSocket message: " \o m.text>>
    /\ UNCHANGED <<mainVars, envVars, pc, crashed, proberVars, deployVars, slotVars, bridgeVars,
                   readyState>>

\* 'message' handler, lines 41-44.
OnMessage(c, m) ==
    /\ ~crashed
    /\ readyState[c] \in {"OPEN", "CLOSING"}
    /\ TotalMsgs(Conns) < MaxMsgs
    /\ LET logged == [connEvents EXCEPT ![c] = Append(@,
                         LogEvent("message", "Received WebSocket message: " \o m.text))]
           r == ReplyConn(c)
       IN connEvents' = [logged EXCEPT ![r] = Append(@, SendEvent(readyState[r], Ack))]
    /\ stdout' = <<"Received WebSocket message: " \o m.text>>
    /\ UNCHANGED <<mainVars, envVars, pc, crashed, proberVars, deployVars, slotVars, bridgeVars,
                   readyState>>

\* The peer closes: the server side of the connection enters CLOSING.
PeerCloses(c) ==
    /\ ~crashed
    /\ readyState[c] = "OPEN"
    /\ readyState' = [readyState EXCEPT ![c] = "CLOSING"]
    /\ stdout' = <<>>
    /\ UNCHANGED <<mainVars, envVars, pc, crashed, proberVars, deployVars, slotVars, bridgeVars,
                   connEvents>>

\* 'close' handler, lines 46-48.
OnClose(c) ==
    /\ ~crashed
    /\ readyState[c] = "CLOSING"
    /\ readyState' = [readyState EXCEPT ![c] = "CLOSED"]
    /\ connEvents' = [connEvents EXCEPT ![c] = Append(@,
           LogEvent("close", "Rust sequencer disconnected from port " \o ToString(bridge.server)))]
    /\ stdout' = <<connEvents'[c][Len(connEvents'[c])].text>>
    /\ UNCHANGED <<mainVars, envVars, pc, crashed, proberVars, deployVars, slotVars, bridgeVars>>

\* ------------------------------------------------------- specifications
NextOrch ==
    \/ Load
    \/ StraySettles
    \/ \E o \in ProbeOutcomes : FetchSettles(o)
    \/ ProbeTimer
    \/ DeployStart
    \/ DcSetupOk
    \/ DcAccountOk
    \/ DcContractOk
    \/ DcThrows
    \/ RetryTimer
    \/ WrapperReturn
    \/ ThenCallback
    \/ BridgeSettles

\* the process from module load until the bridge server's bind has settled
Spec == Init /\ [][NextOrch]_vars

\* the event loop runs every continuation and timer that is due
SpecFair ==
    /\ Spec
    /\ WF_vars(ProbeTimer) /\ WF_vars(DeployStart) /\ WF_vars(RetryTimer)
    /\ WF_vars(WrapperReturn) /\ WF_vars(ThenCallback)

\* The states in which the bridge server has just started listening after a
\* start-up in which the first probe and the first deployment succeeded, with
\* PXE_URL unset and no port above the bridge's in use: Load, StraySettles, FetchSettles(OK), DeployStart,
\* DcSetupOk, DcAccountOk, DcContractOk, WrapperReturn, ThenCallback,
\* BridgeSettles.
InitBridge ==
    /\ MainUndeployed
    /\ pxeUrlEnv = Undefined
    /\ portStatus \in [{StrayPort} \cup BridgePorts -> PortStatuses]
    /\ portStatus[DefaultPort + MaxBusyPorts] = "free"
    /\ portStatus[StrayPort] = "free"
    /\ bindThrows \in BOOLEAN
    /\ pc = "done"
    /\ crashed = FALSE
    /\ probes = 1 /\ probeFails = 0 /\ pauses = 0 /\ pausedMs = 0
    /\ lastProbe = [threw |-> FALSE, statusText |-> ReadyText]
    /\ probeUrl = StatusUrl /\ proberRuns = 1
    /\ attempts = 1 /\ inFlight = 0 /\ deployFails = 0 /\ errLogs = 0
    /\ retryPausedMs = 0 /\ rpcUrl = DefaultPxeUrl
    /\ accounts = {Handle("wallet", 1)} /\ contracts = {Handle("contract", 1)}
    /\ dcResult = [contract |-> Handle("contract", 1), wallet |-> Handle("wallet", 1)]
    /\ retVal = dcResult
    /\ contractInstance = retVal.contract /\ walletInstance = retVal.wallet
    /\ slotWrites = 1
    /\ stray = "listening"
    /\ LET b == startWebSocketServer(DefaultPort, NoBridge)
       IN /\ b.state = "binding"
          /\ \A p \in BridgePorts : p >= b.server => portStatus[p] = "free"
          /\ bridge = [b EXCEPT !.state = "listening"]
          /\ listening = {StrayPort, b.server}
    /\ readyState = [c \in Conns |-> "NONE"]
    /\ connEvents = [c \in Conns |-> <<>>]
    /\ stdout = <<>>

NextBridge ==
    \/ \E c \in Conns : Connect(c)
    \/ \E c \in Conns : \E m \in Messages : OnMessage(c, m)
    \/ \E c \in Conns : PeerCloses(c)
    \/ \E c \in Conns : OnClose(c)

\* the listening bridge server and its clients
SpecBridge == InitBridge /\ [][NextBridge]_vars

\* every state InitBridge describes is one the start-up reaches
StartupDone ==
    /\ pc = "done" /\ bridge.state = "listening" /\ pxeUrlEnv = Undefined
    /\ attempts = 1 /\ probes = 1
    /\ \A p \in BridgePorts : p >= bridge.server => portStatus[p] = "free"
StartupReachesInitBridge == StartupDone => InitBridge

\* ------------------------------------------------------- Main contract
\* PublicMutable.write and PublicMutable.read on a slot
Write(st, slot, value) == [st EXCEPT ![slot] = value]
Read(st, slot) == st[slot]

\* constructor(), lines 15-20
constructor(st) ==
    Write(Write(st, DerivedSlot(InitMapKey), InitMapValue), JustFieldSlot, InitJustField)
\* mutant: set_just_field writes the value to the map's slot for key 1 too
set_just_fieldAlsoWritesMap(st, value) ==
    Write(Write(st, JustFieldSlot, value), DerivedSlot(InitMapKey), value)
\* set_just_field(value), lines 22-25
set_just_field(st, value) == Write(st, JustFieldSlot, value)
\* get_just_field(), lines 27-33
get_just_field(st) == Read(st, JustFieldSlot)
\* mutant: set_field_in_map ignores its key and writes the slot of key 1
set_field_in_mapIgnoresKey(st, key, value) == Write(st, DerivedSlot(InitMapKey), value)
\* set_field_in_map(key, value), lines 39-42
set_field_in_map(st, key, value) == Write(st, DerivedSlot(key), value)
\* read_field_in_map(key), lines 44-48
read_field_in_map(st, key) == Read(st, DerivedSlot(key))

\* what the server process holds; a call to the contract leaves it alone
serverVars == <<envVars, pc, crashed, proberVars, deployVars, slotVars, bridgeVars,
                connVars, stdout>>

\* MainContract.deploy(wallet).send().deployed(): the initializer runs once
Deploy ==
    /\ ~initialized
    /\ storage' = constructor(storage)
    /\ initialized' = TRUE
    /\ call' = [fn |-> "constructor", key |-> 0, value |-> 0, ret |-> 0]
    /\ UNCHANGED <<lastJust, lastMap>>
    /\ UNCHANGED serverVars

\* A call to a function other than the initializer reverts until the
\* initializer has run.
CallSetJustField(v) ==
    /\ initialized
    /\ storage' = set_just_field(storage, v)
    /\ call' = [fn |-> "set_just_field", key |-> 0, value |-> v, ret |-> 0]
    /\ lastJust' = Latest(v)
    /\ UNCHANGED <<initialized, lastMap>>
    /\ UNCHANGED serverVars

CallGetJustField ==
    /\ initialized
    /\ call' = [fn |-> "get_just_field", key |-> 0, value |-> 0,
                ret |-> get_just_field(storage)]
    /\ UNCHANGED <<storage, initialized, lastJust, lastMap>>
    /\ UNCHANGED serverVars

CallSetFieldInMap(k, v) ==
    /\ initialized
    /\ storage' = set_field_in_map(storage, k, v)
    /\ call' = [fn |-> "set_field_in_map", key |-> k, value |-> v, ret |-> 0]
    /\ lastMap' = [lastMap EXCEPT ![k] = Latest(v)]
    /\ UNCHANGED <<initialized, lastJust>>
    /\ UNCHANGED serverVars

CallReadFieldInMap(k) ==
    /\ initialized
    /\ call' = [fn |-> "read_field_in_map", key |-> k, value |-> 0,
                ret |-> read_field_in_map(storage, k)]
    /\ UNCHANGED <<storage, initialized, lastJust, lastMap>>
    /\ UNCHANGED serverVars

NextMain ==
    \/ Deploy
    \/ \E v \in FieldValues : CallSetJustField(v)
    \/ CallGetJustField
    \/ \E k \in Keys : \E v \in FieldValues : CallSetFieldInMap(k, v)
    \/ \E k \in Keys : CallReadFieldInMap(k)

\* one Main instance, deployed and called by a script or a test; the server
\* process is not part of it and stays as it is before module load
InitMain ==
    /\ Init
    /\ pxeUrlEnv = Undefined /\ ~bindThrows
    /\ \A p \in DOMAIN portStatus : portStatus[p] = "free"

SpecMain == InitMain /\ [][NextMain]_vars

\* ---------------------------------------------------------------- claims
DcStages == {"dc_setup", "dc_account", "dc_contract"}
PairOf(n) == [contract |-> Handle("contract", n), wallet |-> Handle("wallet", n)]
ProbeWasOK == ~lastProbe.threw /\ lastProbe.statusText = "OK"

\* C1: after k failing deployContract attempts and one succeeding attempt,
\* deployContractWithRetry returns, what it returns is the pair the
\* succeeding attempt produced, and an ensurePXEReady call has run to
\* completion before each of the k+1 attempts.
C1_RetryReturnsSuccess ==
    /\ [][attempts' # attempts =>
            /\ pc = "ready"
            /\ attempts' = attempts + 1
            /\ proberRuns = attempts + 1]_vars
    /\ [](pc \in {"resolved", "done"} =>
            /\ attempts = deployFails + 1
            /\ proberRuns = attempts
            /\ retVal = PairOf(attempts)
            /\ retVal.contract \in contracts /\ retVal.wallet \in accounts)
    /\ (pc = "dc_returned") ~> (pc = "resolved" /\ retVal = dcResult)
C1_Witness ==
    pc = "resolved" /\ deployFails = 2 /\ proberRuns = 3 /\ retVal = PairOf(3)

\* C2: ensurePXEReady returns on a probe exactly when that probe produced a
\* response whose statusText is "OK"; after a probe that threw or produced
\* another statusText it has not returned: it pauses and probes again.
C2_ReturnsIffOK ==
    /\ pc = "ready" => ProbeWasOK
    /\ pc = "sleep5" => ~ProbeWasOK
    /\ (pc = "fetch" /\ probes > 1) => ~ProbeWasOK
    /\ (lastProbe # NoProbe /\ ~ProbeWasOK) =>
            /\ pc \in {"sleep5", "fetch"}
            /\ proberRuns = deployFails
    /\ proberRuns > deployFails => ProbeWasOK
C2_Witness ==
    /\ pc = "fetch" /\ probes = 3 /\ proberRuns = 0
    /\ ~lastProbe.threw /\ lastProbe.statusText = "ok"

\* C3: every message received on an open bridge connection, whatever its
\* content, gets exactly one reply on that connection, the reply is the fixed
\* acknowledgement, and the handler does not throw.
C3_FixedAck ==
    \A c \in Conns :
        LET ev == connEvents[c]
            sends == SelectSeq(ev, LAMBDA e : e.type = "send")
            msgs == SelectSeq(ev, LAMBDA e : e.type = "log" /\ e.kind = "message")
        IN /\ \A i \in 1 .. Len(sends) :
                /\ sends[i].text =
                     "{\"success\":true,\"message\":\"Test response from WebSocket server\"}"
                /\ ~sends[i].threw
           /\ readyState[c] = "OPEN" =>
                /\ Len(sends) = Len(msgs)
                /\ \A i \in 1 .. Len(sends) : sends[i].wire
C3_Witness ==
    \E c \in Conns :
        /\ readyState[c] = "OPEN"
        /\ Len(connEvents[c]) = 5
        /\ connEvents[c][2].text = "Received WebSocket message: "
        /\ connEvents[c][4].text = "Received WebSocket message: \\x00\\xff"
        /\ connEvents[c][5].wire

\* the number of ports from DefaultPort upwards that are in use before the
\* first one that is not
RECURSIVE BusyRun(_)
BusyRun(p) == IF portStatus[p] = "EADDRINUSE" THEN 1 + BusyRun(p + 1) ELSE 0

\* C4: when ports 3002 .. 3002+n-1 are bound by other listeners and 3002+n
\* is free, startWebSocketServer tries 3002, 3003, ... in turn, ends up
\* listening on 3002+n and logs 3002+n as the port it is running on.
C4_PortRetry ==
    LET n == BusyRun(DefaultPort) IN
    (pc = "done" /\ portStatus[DefaultPort + n] = "free") =>
        /\ bridge.tried = [i \in 1 .. n + 1 |-> DefaultPort + i - 1]
        /\ bridge.running = <<DefaultPort + n>>
        /\ (bridge.state # "binding" \/ crashed) =>
                /\ ~crashed
                /\ bridge.state = "listening"
                /\ (DefaultPort + n) \in listening

\* C5: no deployContract attempt starts before the ensurePXEReady call
\* preceding it has returned, and no WebSocket listener of the process is
\* listening before a deployContract attempt has succeeded.
C5_Ordering ==
    /\ pc \in DcStages => proberRuns = attempts
    /\ listening # {} => dcResult # NoResult

\* C6: when the first N probes of an ensurePXEReady call fail and probe N+1
\* returns "OK", the call makes exactly N+1 probes and N pauses of 5000 ms,
\* one after each failed probe and none after the successful one.
C6_ProbesAndPauses ==
    /\ pauses = probeFails
    /\ pausedMs = 5000 * probeFails
    /\ pc = "sleep5" => probes = probeFails
    /\ pc = "fetch" => probes = probeFails + 1
    /\ ProbeWasOK => probes = probeFails + 1
C6_Witness ==
    pc = "ready" /\ probeFails = 2 /\ probes = 3 /\ pauses = 2 /\ pausedMs = 10000

\* C7: after each failed deployContract attempt the wrapper logs one error,
\* pauses 10000 ms, re-runs ensurePXEReady and only then starts the next
\* attempt; at most one attempt is in progress at any time.
C7_RetrySequence ==
    /\ errLogs = deployFails
    /\ retryPausedMs = 10000 * deployFails
    /\ inFlight \in {0, 1}
    /\ inFlight = 1 <=> pc \in DcStages
    /\ pc \in DcStages => (attempts = deployFails + 1 /\ proberRuns = attempts)
    /\ pc \in {"sleep10", "fetch", "sleep5"} =>
            (attempts = deployFails /\ proberRuns = deployFails)
    /\ pc = "ready" => (attempts = deployFails /\ proberRuns = deployFails + 1)
    /\ pc = "sleep10" => stdout = <<"Contract deployment failed, retrying in 10 seconds...">>
C7_Witness ==
    pc = "dc_setup" /\ deployFails = 1 /\ errLogs = 1 /\ retryPausedMs = 10000
        /\ proberRuns = 2 /\ attempts = 2

\* C8: the events of one bridge connection occur in lifecycle order: the
\* connection log first, each message log directly before the
\* acknowledgement sent for it, the disconnection log last.
C8_LifecycleOrder ==
    \A c \in Conns :
        LET ev == connEvents[c] IN
        /\ readyState[c] = "NONE" <=> ev = <<>>
        /\ ev # <<>> => ev[1].kind = "connection"
        /\ \A i \in 2 .. Len(ev) : ev[i].kind # "connection"
        /\ \A i \in 1 .. Len(ev) :
            /\ ev[i].kind = "close" => (i = Len(ev) /\ i > 1)
            /\ ev[i].kind = "send" => (i > 1 /\ ev[i - 1].kind = "message")
            /\ ev[i].kind = "message" => (i < Len(ev) /\ ev[i + 1].kind = "send")
        /\ readyState[c] = "CLOSED" <=> (ev # <<>> /\ ev[Len(ev)].kind = "close")
C8_Witness ==
    \E c \in Conns :
        /\ readyState[c] = "CLOSED"
        /\ Len(connEvents[c]) = 6
        /\ connEvents[c][2].text = "Received WebSocket message: hello"

\* C9: with PXE_URL set to U both the RPC client of deployContract and the
\* status probe of ensurePXEReady target U (the probe requests U/status);
\* with PXE_URL unset both target http://localhost:8080.
C9_PxeUrlTargets ==
    LET U == IF pxeUrlEnv = Undefined THEN "http://localhost:8080" ELSE pxeUrlEnv IN
    /\ rpcUrl # Undefined => rpcUrl = U
    /\ probeUrl # Undefined => probeUrl = U \o "/status"

\* C10: the slot (contractInstance, walletInstance) is written once per run,
\* only after a deployContract attempt has succeeded, and holds the pair of
\* that attempt; failed attempts never write it.
C10_SlotWrittenOnce ==
    /\ slotWrites \in {0, 1}
    /\ slotWrites = 1 <=> pc = "done"
    /\ slotWrites = 0 => (contractInstance = NoHandle /\ walletInstance = NoHandle)
    /\ slotWrites = 1 =>
            /\ contractInstance = Handle("contract", attempts)
            /\ walletInstance = Handle("wallet", attempts)
            /\ contractInstance \in contracts /\ walletInstance \in accounts
            /\ attempts = deployFails + 1
C10_Witness ==
    pc = "done" /\ slotWrites = 1 /\ deployFails = 2
        /\ contractInstance = Handle("contract", 3)

\* C11: after the constructor has run, get_just_field returns the value of
\* the latest set_just_field call, or 700 when there was none;
\* read_field_in_map(k) returns the value of the latest set_field_in_map(k, _)
\* call, or, when there was none, 1 for k = 1 and 0 for every other key.
C11_ReadsLatestWrite ==
    initialized =>
        LET just == IF lastJust.set THEN lastJust.value ELSE 700
            slot(k) == IF lastMap[k].set THEN lastMap[k].value
                       ELSE IF k = 1 THEN 1 ELSE 0
        IN /\ get_just_field(storage) = just
           /\ \A k \in Keys : read_field_in_map(storage, k) = slot(k)
           /\ call.fn = "get_just_field" => call.ret = just
           /\ call.fn = "read_field_in_map" => call.ret = slot(call.key)
C11_Witness ==
    /\ call.fn = "read_field_in_map" /\ call.key = 2 /\ call.ret = 214
    /\ lastJust = Latest(214) /\ get_just_field(storage) = 214
    /\ ~lastMap[1].set /\ read_field_in_map(storage, 1) = 1
    /\ ~lastMap[0].set /\ read_field_in_map(storage, 0) = 0

\* C19: set_field_in_map(k, v) changes only the map slot of k; set_just_field
\* changes only just_field; get_just_field and read_field_in_map change no
\* storage.
C19_FrameEffects ==
    [][/\ call'.fn = "set_field_in_map" =>
            /\ storage'[<<2>>] = storage[<<2>>]
            /\ \A k \in Keys : k # call'.key => storage'[<<1, k>>] = storage[<<1, k>>]
       /\ call'.fn = "set_just_field" =>
            \A k \in Keys : storage'[<<1, k>>] = storage[<<1, k>>]
       /\ call'.fn \in {"get_just_field", "read_field_in_map"} => storage' = storage
       /\ call'.fn # "constructor" => initialized' = initialized]_vars
C19_Witness ==
    /\ call.fn = "set_field_in_map" /\ call.key = 2 /\ call.value = 214
    /\ storage[<<1, 2>>] = 214 /\ storage[<<1, 1>>] = 1 /\ storage[<<1, 0>>] = 0
    /\ storage[<<2>>] = 700

\* C12: when binding the bridge socket fails with an error other than
\* address-in-use, startWebSocketServer logs the error, tries no other port,
\* does not propagate the error, and the process continues without a
\* listening bridge server.
C12_OtherBindError ==
    \A i \in 1 .. Len(bridge.tried) :
        portStatus[bridge.tried[i]] = "EACCES" =>
            /\ i = Len(bridge.tried)
            /\ bridge.errors # <<>>
            /\ bridge.errors[Len(bridge.errors)] =
                    "Unexpected error in WebSocket server: EACCES"
            /\ bridge.running = <<>>
            /\ ~crashed
            /\ pc = "done"

\* C13: deployContractWithRetry and ensurePXEReady never end with an error:
\* whatever the probes and the deployContract attempts produce, each is still
\* running or has returned, deployContractWithRetry with a pair; the process
\* does not die between the first probe outcome and the return.
C13_NeverRejects ==
    /\ pc \in {"load", "fetch", "sleep5", "ready", "dc_setup", "dc_account",
               "dc_contract", "dc_returned", "sleep10", "resolved", "done"}
    /\ pc \in {"resolved", "done"} =>
            (retVal.contract.kind = "contract" /\ retVal.wallet.kind = "wallet")
    /\ pc \notin {"resolved", "done"} => (retVal = NoResult /\ slotWrites = 0)
    /\ crashed => (lastProbe = NoProbe \/ pc = "done")
C13_Witness ==
    pc = "sleep5" /\ lastProbe.threw /\ deployFails = 2 /\ probeFails = 2 /\ ~crashed

\* C14 as stated: a probe answered with another status text is handled like
\* a probe that throws: the not-ready line is logged and the 5000 ms pause
\* follows.
C14_IdenticalHandling ==
    pc = "sleep5" =>
        /\ stdout = <<"PXE not ready yet, retrying...">>
        /\ pausedMs = 5000 * probeFails

\* C14 amended: both are followed by the same 5000 ms pause and retry, but
\* the log differs: the throw logs the not-ready line, the response logs its
\* status text and no not-ready line.
C14_SamePauseOtherLog ==
    /\ pc = "sleep5" =>
        /\ ~ProbeWasOK
        /\ probes = probeFails /\ pauses = probeFails
        /\ pausedMs = 5000 * probeFails
        /\ stdout = IF lastProbe.threw
                    THEN <<"PXE not ready yet, retrying...">>
                    ELSE <<"response.statusText " \o lastProbe.statusText>>
    /\ (pc = "fetch" /\ probes > 1) => (probes = pauses + 1 /\ stdout = <<>>)
C14_Witness ==
    /\ pc = "sleep5" /\ ~lastProbe.threw
    /\ lastProbe.statusText = "Service Unavailable"
    /\ stdout = <<"response.statusText Service Unavailable">>
    /\ pausedMs = 10000 /\ probeFails = 2

Succeeded == IF pc \in {"dc_returned", "resolved", "done"} THEN 1 ELSE 0

C16_AckOnOwnConnection ==
    \A c \in Conns :
        LET ev == connEvents[c]
            Count(n, kind) ==
                Cardinality({i \in 1 .. n : ev[i].kind = kind})
        IN /\ Count(Len(ev), "send") = Count(Len(ev), "message")
           /\ \A n \in 0 .. Len(ev) :
                /\ Count(n, "send") <= Count(n, "message")
                /\ Count(n, "message") <= Count(n, "send") + 1
C16_Witness ==
    /\ \A c \in {1, 2} :
        /\ readyState[c] = "OPEN"
        /\ Len(connEvents[c]) = 3
        /\ connEvents[c][3].kind = "send" /\ connEvents[c][3].wire
    /\ connEvents[1][2].text # connEvents[2][2].text

\* C17: whenever startWebSocketServer logs that the server is running on
\* port p, the bind of p has not failed, and once it has settled the process
\* is listening on p.
C17_RunningMeansBound ==
    \A i \in 1 .. Len(bridge.running) :
        /\ portStatus[bridge.running[i]] = "free"
        /\ bridge.state # "binding" => bridge.running[i] \in listening

\* C18: whenever the default-port bridge server has been started,
\* contractInstance and walletInstance are both set and are the contract and
\* the wallet of one and the same successful deployContract attempt.
C18_SlotSetBeforeBridge ==
    bridge.tried # <<>> =>
        /\ contractInstance.kind = "contract" /\ walletInstance.kind = "wallet"
        /\ contractInstance.id = walletInstance.id
        /\ contractInstance \in contracts /\ walletInstance \in accounts
        /\ contractInstance = dcResult.contract /\ walletInstance = dcResult.wallet
        /\ contractInstance.id = deployFails + 1
C18_Witness ==
    /\ bridge.tried = <<3002, 3003>> /\ deployFails = 2
    /\ contractInstance = Handle("contract", 3) /\ walletInstance = Handle("wallet", 3)

====
